---- MODULE Spec2Model ----
(***************************************************************************)
(* UltraThinkOrchestrator (src/ultrathink-example.py): one orchestrator,   *)
(* one call of a public coroutine per behaviour.  The call is either       *)
(* execute_ultrathink(user_request) or one of the four thinking patterns   *)
(* called directly with a subtask list.  A step of the model is the code   *)
(* a coroutine runs between two points where it is suspended (the sleep of *)
(* simulate_agent_execution, the gather of parallel_thinking), cut once    *)
(* more at the phase boundaries of execute_ultrathink.                     *)
(***************************************************************************)
EXTENDS Integers, Sequences, FiniteSets, TLC

\* Longest subtask list handed to a thinking pattern called directly.
MaxSubtasks == 3
\* Longest request, in words.
MaxWords == 2

\* Longest result list handed to synthesize_results called directly.
MaxResults == 5
\* Most calls of analyze_request that are recorded.
MaxAnalyses == 2
\* Longest request, in words, handed to analyze_request called directly.
MaxLong == 60

\* The three agents main() registers and analyze_request names.
Agents == {"TrendingAgent", "AnalyzerAgent", "SynthesisAgent"}

\* Words a request is made of; Lower is str.lower() on them.
Words == {"Análise", "análise", "tendências", "dados"}

lower_identity(w) == w

Lower(w) == IF w = "Análise" THEN "análise" ELSE w

\* Requests of 0..MaxLong words: request.split() has that many elements.
LongRequests == {[i \in 1..n |-> "dados"] : n \in 0..MaxLong}

RECURSIVE SeqsUpTo(_, _)
SeqsUpTo(S, n) ==
    IF n = 0 THEN {<<>>}
    ELSE LET shorter == SeqsUpTo(S, n - 1)
         IN  shorter \cup {Append(s, x) : s \in {t \in shorter : Len(t) = n - 1}, x \in S}

Requests == SeqsUpTo(Words, MaxWords)

\* The value of a result-typed slot that holds no result.
None == [agent |-> "None", task |-> "None", result |-> <<>>, status |-> "None"]

Subtask(agent, task) == [agent |-> agent, task |-> task, previous_result |-> None]

\* The subtask list analyze_request builds for a trend analysis.
TrendSubtasks ==
    << Subtask("TrendingAgent", "Buscar tendências atuais"),
       Subtask("AnalyzerAgent", "Analisar dados quantitativos"),
       Subtask("SynthesisAgent", "Sintetizar insights") >>

\* Subtask lists a caller hands to a thinking pattern directly.
SubtaskLists == SeqsUpTo({TrendSubtasks[i] : i \in 1..3}, MaxSubtasks)

\* word in user_request.lower(), at the granularity of words
Contains(request, word) == \E i \in 1..Len(request) : Lower(request[i]) = word

calculate_complexity_inclusive(request) ==
    LET word_count == Len(request)
    IN  IF word_count <= 10 THEN 3
        ELSE IF word_count <= 30 THEN 5
        ELSE IF word_count <= 50 THEN 7
        ELSE 9

calculate_complexity(request) ==
    LET word_count == Len(request)
    IN  IF word_count < 10 THEN 3
        ELSE IF word_count < 30 THEN 5
        ELSE IF word_count < 50 THEN 7
        ELSE 9

\* analyze_request: the analysis dict; its "subtasks" entry is AnalysisSubtasks.
IsTrendAnalysis(request) == Contains(request, "análise") /\ Contains(request, "tendências")

analyze_request(request) ==
    [ request |-> request,
      complexity |-> calculate_complexity(request),
      required_agents |-> IF IsTrendAnalysis(request)
                          THEN <<"TrendingAgent", "AnalyzerAgent", "SynthesisAgent">>
                          ELSE <<>>,
      thinking_pattern |-> IF IsTrendAnalysis(request) THEN "parallel" ELSE "sequential" ]

analysis_subtasks_generic(request) ==
    IF IsTrendAnalysis(request) THEN TrendSubtasks ELSE <<TrendSubtasks[3]>>

AnalysisSubtasks(request) == IF IsTrendAnalysis(request) THEN TrendSubtasks ELSE <<>>

\* self.thinking_patterns: key -> the bound method, named by its pattern
thinking_patterns ==
    [k \in {"sequential", "parallel", "hierarchical", "mesh"} |-> k]

Patterns == {thinking_patterns[k] : k \in DOMAIN thinking_patterns}

\* Values of analysis["thinking_pattern"]: the four keys and two that are
\* no key of the dict.
PatternKeys == DOMAIN thinking_patterns \cup {"Parallel", "ring"}

\* dict.get(key, default)
get_strict(d, key, default) == IF key \in DOMAIN d THEN d[key] ELSE "KeyError"

Get(d, key, default) == IF key \in DOMAIN d THEN d[key] ELSE default

\* The dict simulate_agent_execution returns.
simulate_agent_execution(subtask) ==
    [ agent |-> subtask.agent,
      task |-> subtask.task,
      result |-> <<subtask.agent, subtask.task>>,
      status |-> "completed" ]

\* Result lists a caller hands to synthesize_results directly: results of
\* two of the subtasks, with the status the code counts and one it does not.
Statuses == {"completed", "failed"}
ResultLists ==
    SeqsUpTo({[simulate_agent_execution(TrendSubtasks[i]) EXCEPT !.status = s] :
                 i \in 1..2, s \in Statuses}, MaxResults)

\* How the awaited agent call ends: the dict is returned, or an exception
\* leaves the coroutine (a KeyError of the subscripts, or whatever the call
\* that takes the place of the sleep raises).
ExecOutcomes == {"completed", "raise"}

VARIABLES
    agents_registry,  \* names registered
    entry,            \* the public coroutine called: "none" before the call
    user_request,     \* argument of execute_ultrathink
    phase,            \* where execute_ultrathink stands
    analysis,         \* <<>> or <<the analysis dict>>
    pattern,          \* the thinking pattern that runs (thinking_function)
    subtasks,         \* the list the pattern was called with
    st,               \* st[i]: the execution of subtasks[i]
    res,              \* res[i]: the dict execution i returned, or None
    done_order,       \* indices of the executions that returned, in order of return
    results,          \* the pattern's results list
    strat,            \* the pattern's call: idle, active, returned, raised,
                      \* or cancelled before it was made or had run
    channels,         \* mesh: agent name -> contents of its queue
    error,            \* the exception that left the called coroutine
    outcome,          \* <<>> or <<the dict execute_ultrathink returned>>
    cancelled,        \* the called coroutine's task was cancelled
    analyses          \* what the direct calls of analyze_request returned, in order

vars == << agents_registry, entry, user_request, phase, analysis, pattern, subtasks,
           st, res, done_order, results, strat, channels, error, outcome, cancelled,
           analyses >>

N == Len(subtasks)

Init ==
    /\ agents_registry = {}
    /\ entry = "none"
    /\ user_request = <<>>
    /\ phase = "Idle"
    /\ analysis = <<>>
    /\ pattern = "none"
    /\ subtasks = <<>>
    /\ st = <<>>
    /\ res = <<>>
    /\ done_order = <<>>
    /\ results = <<>>
    /\ strat = "idle"
    /\ channels = << >>
    /\ error = "None"
    /\ outcome = <<>>
    /\ cancelled = FALSE
    /\ analyses = <<>>

\* What the called coroutine sees of a pattern that returns `list`
\* (execute_ultrathink goes on to the synthesis) or that raises `e`.
PhaseAfterReturn == IF entry = "execute_ultrathink" THEN "Synthesizing" ELSE phase
PhaseAfterRaise == IF entry = "execute_ultrathink" THEN "Failed" ELSE phase

\* The pattern has been called and has not run yet.
PatternCalled(p) ==
    /\ pattern = p
    /\ strat = "idle"
    /\ \/ entry = "execute_ultrathink" /\ phase = "Executing"
       \/ entry = "thinking_pattern"

register_agent(name) ==
    /\ agents_registry' = agents_registry \cup {name}
    /\ UNCHANGED << entry, user_request, phase, analysis, pattern, subtasks, st, res,
                    done_order, results, strat, channels, error, outcome, cancelled, analyses >>

\* execute_ultrathink is called: the coroutine stands at its first phase.
execute_ultrathink(request) ==
    /\ entry = "none"
    /\ entry' = "execute_ultrathink"
    /\ user_request' = request
    /\ phase' = "Analyzing"
    /\ UNCHANGED << agents_registry, analysis, pattern, subtasks, st, res, done_order,
                    results, strat, channels, error, outcome, cancelled, analyses >>

\* Phase 2, on the analysis dict `a` whose "subtasks" entry is `subs`: the
\* choice of the thinking function.
select_pattern_of(a, subs) ==
    /\ entry = "execute_ultrathink"
    /\ phase = "Analyzing"
    /\ analysis' = <<a>>
    /\ subtasks' = subs
    /\ pattern' = Get(thinking_patterns, a.thinking_pattern, "sequential")
    /\ st' = [i \in 1..Len(subs) |-> "pending"]
    /\ res' = [i \in 1..Len(subs) |-> None]
    /\ phase' = "Executing"
    /\ UNCHANGED << agents_registry, entry, user_request, done_order, results, strat,
                    channels, error, outcome, cancelled, analyses >>

\* Phases 1 and 2: the analysis and the choice of the thinking function.
select_pattern ==
    select_pattern_of(analyze_request(user_request), AnalysisSubtasks(user_request))

\* Phases 1 and 2 with an analysis whose thinking_pattern and subtasks are
\* not those of the keyword match (analyze_request overridden).
select_pattern_given(key, subs) ==
    select_pattern_of([analyze_request(user_request) EXCEPT !.thinking_pattern = key], subs)

\* A thinking pattern is called directly with a subtask list.
call_pattern(p, subs) ==
    /\ entry = "none"
    /\ entry' = "thinking_pattern"
    /\ pattern' = p
    /\ subtasks' = subs
    /\ st' = [i \in 1..Len(subs) |-> "pending"]
    /\ res' = [i \in 1..Len(subs) |-> None]
    /\ UNCHANGED << agents_registry, user_request, phase, analysis, done_order, results,
                    strat, channels, error, outcome, cancelled, analyses >>

sequential_thinking_all_at_once ==
    /\ PatternCalled("sequential")
    /\ N > 0
    /\ results' = <<>>
    /\ strat' = "active"
    /\ st' = [i \in 1..N |-> "running"]
    /\ UNCHANGED << agents_registry, entry, user_request, phase, analysis, pattern,
                    subtasks, res, done_order, channels, error, outcome, cancelled,
                    analyses >>

\* sequential_thinking up to its first await.
sequential_thinking ==
    /\ PatternCalled("sequential")
    /\ results' = <<>>
    /\ IF N = 0
       THEN /\ strat' = "returned"
            /\ phase' = PhaseAfterReturn
            /\ st' = st
       ELSE /\ strat' = "active"
            /\ phase' = phase
            /\ st' = [st EXCEPT ![1] = "running"]
    /\ UNCHANGED << agents_registry, entry, user_request, analysis, pattern, subtasks,
                    res, done_order, channels, error, outcome, cancelled, analyses >>

\* sequential_thinking from the end of one execution to the next await or
\* to its return.
sequential_resume(i, o) ==
    /\ pattern = "sequential"
    /\ strat = "active"
    /\ i \in 1..N
    /\ st[i] = "running"
    /\ IF o = "completed"
       THEN LET result == simulate_agent_execution(subtasks[i])
                appended == Append(results, result)
            IN  /\ results' = appended
                /\ res' = [res EXCEPT ![i] = result]
                /\ done_order' = Append(done_order, i)
                /\ subtasks' = [subtasks EXCEPT ![i].previous_result = appended[Len(appended)]]
                /\ IF i < N
                   THEN /\ st' = [st EXCEPT ![i] = "done", ![i + 1] = "running"]
                        /\ strat' = strat
                        /\ phase' = phase
                   ELSE /\ st' = [st EXCEPT ![i] = "done"]
                        /\ strat' = "returned"
                        /\ phase' = PhaseAfterReturn
                /\ error' = error
       ELSE /\ st' = [st EXCEPT ![i] = "raised"]
            /\ strat' = "raised"
            /\ error' = "ExecutionError"
            /\ phase' = PhaseAfterRaise
            /\ UNCHANGED << results, res, done_order, subtasks >>
    /\ UNCHANGED << agents_registry, entry, user_request, analysis, pattern, channels,
                    outcome, cancelled, analyses >>

\* Executions a gather waits for: all of them in the parallel pattern, the
\* sub-agents' in the hierarchical one.
Offset == IF pattern = "hierarchical" THEN 1 ELSE 0
Gathered == (Offset + 1)..N

\* The results of the gathered executions in the order of the awaitables,
\* and the positions of the awaitables in the order in which they returned.
GatheredResults(r) == [k \in 1..(Len(r) - Offset) |-> r[k + Offset]]
GatheredOrder(order) ==
    LET sel == SelectSeq(order, LAMBDA i : i > Offset)
    IN  [k \in 1..Len(sel) |-> sel[k] - Offset]

\* asyncio.gather(*tasks): the list of the awaitables' results.
gather_by_completion(rs, order) ==
    [k \in 1..Len(rs) |-> IF k <= Len(order) THEN rs[order[k]] ELSE None]

gather(rs, order) == rs

\* The future of gather is done: every awaitable has returned.
join_first_completed(s, idx) == idx = {} \/ \E i \in idx : s[i] = "done"

join_ready(s, idx) == \A i \in idx : s[i] = "done"

\* [main_result] + sub_results
hierarchical_output_appended(main_result, sub_results) == Append(sub_results, main_result)

hierarchical_output(main_result, sub_results) == <<main_result>> \o sub_results

\* What the pattern returns once its gather is done.
PatternOutput(r, order) ==
    LET gathered == gather(GatheredResults(r), GatheredOrder(order))
    IN  IF pattern = "hierarchical" THEN hierarchical_output(r[1], gathered) ELSE gathered

\* parallel_thinking up to the await of its gather.
parallel_thinking ==
    /\ PatternCalled("parallel")
    /\ IF N = 0
       THEN /\ strat' = "returned"
            /\ results' = gather(<<>>, <<>>)
            /\ phase' = PhaseAfterReturn
            /\ st' = st
       ELSE /\ strat' = "active"
            /\ results' = results
            /\ phase' = phase
            /\ st' = [i \in 1..N |-> "running"]
    /\ UNCHANGED << agents_registry, entry, user_request, analysis, pattern, subtasks,
                    res, done_order, channels, error, outcome, cancelled, analyses >>

\* One gathered execution ends.  While the pattern awaits the gather, the
\* last return resumes it with the list and the first exception resumes it
\* with that exception; the executions still running are left running.
gathered_resume(i, o) ==
    /\ pattern \in {"parallel", "hierarchical"}
    /\ i \in Gathered
    /\ st[i] = "running"
    /\ IF o = "completed"
       THEN LET result == simulate_agent_execution(subtasks[i])
                r == [res EXCEPT ![i] = result]
                s == [st EXCEPT ![i] = "done"]
                order == Append(done_order, i)
            IN  /\ res' = r
                /\ st' = s
                /\ done_order' = order
                /\ IF strat = "active" /\ join_ready(s, Gathered)
                   THEN /\ strat' = "returned"
                        /\ results' = PatternOutput(r, order)
                        /\ phase' = PhaseAfterReturn
                   ELSE UNCHANGED << strat, results, phase >>
                /\ error' = error
       ELSE /\ st' = [st EXCEPT ![i] = "raised"]
            /\ IF strat = "active"
               THEN /\ strat' = "raised"
                    /\ error' = "ExecutionError"
                    /\ phase' = PhaseAfterRaise
               ELSE UNCHANGED << strat, error, phase >>
            /\ UNCHANGED << res, done_order, results >>
    /\ UNCHANGED << agents_registry, entry, user_request, analysis, pattern, subtasks,
                    channels, outcome, cancelled, analyses >>

\* hierarchical_thinking up to the await of the main agent's execution.
hierarchical_thinking ==
    /\ PatternCalled("hierarchical")
    /\ IF N = 0
       THEN /\ strat' = "raised"
            /\ error' = "IndexError"
            /\ phase' = PhaseAfterRaise
            /\ st' = st
       ELSE /\ strat' = "active"
            /\ error' = error
            /\ phase' = phase
            /\ st' = [st EXCEPT ![1] = "running"]
    /\ UNCHANGED << agents_registry, entry, user_request, analysis, pattern, subtasks,
                    res, done_order, results, channels, outcome, cancelled, analyses >>

\* hierarchical_thinking from the end of the main agent's execution to the
\* await of the gather inside parallel_thinking(sub_agents).
hierarchical_resume(o) ==
    /\ pattern = "hierarchical"
    /\ strat = "active"
    /\ N >= 1
    /\ st[1] = "running"
    /\ IF o = "completed"
       THEN LET main_result == simulate_agent_execution(subtasks[1])
                r == [res EXCEPT ![1] = main_result]
                order == Append(done_order, 1)
            IN  /\ res' = r
                /\ done_order' = order
                /\ st' = [i \in 1..N |-> IF i = 1 THEN "done" ELSE "running"]
                /\ IF N = 1
                   THEN /\ strat' = "returned"
                        /\ results' = PatternOutput(r, order)
                        /\ phase' = PhaseAfterReturn
                   ELSE UNCHANGED << strat, results, phase >>
                /\ error' = error
       ELSE /\ st' = [st EXCEPT ![1] = "raised"]
            /\ strat' = "raised"
            /\ error' = "ExecutionError"
            /\ phase' = PhaseAfterRaise
            /\ UNCHANGED << res, done_order, results >>
    /\ UNCHANGED << agents_registry, entry, user_request, analysis, pattern, subtasks,
                    channels, outcome, cancelled, analyses >>

\* Receivers of a result of `agent`: every channel but the agent's own.
receivers_all(ch, agent) == DOMAIN ch

receivers(ch, agent) == {other_agent \in DOMAIN ch : other_agent # agent}

\* for other_agent, channel in communication_channels.items(): channel.put(result)
broadcast(ch, agent, result) ==
    [a \in DOMAIN ch |-> IF a \in receivers(ch, agent) THEN Append(ch[a], result) ELSE ch[a]]

full_at_one(channel) == Len(channel) >= 1

\* asyncio.Queue() has maxsize 0: full() is never true and put never waits.
full(channel) == FALSE

\* mesh_thinking up to its first await: one queue per agent name.
mesh_thinking ==
    /\ PatternCalled("mesh")
    /\ channels' = [a \in {subtasks[i].agent : i \in 1..N} |-> <<>>]
    /\ results' = <<>>
    /\ IF N = 0
       THEN /\ strat' = "returned"
            /\ phase' = PhaseAfterReturn
            /\ st' = st
       ELSE /\ strat' = "active"
            /\ phase' = phase
            /\ st' = [st EXCEPT ![1] = "running"]
    /\ UNCHANGED << agents_registry, entry, user_request, analysis, pattern, subtasks,
                    res, done_order, error, outcome, cancelled, analyses >>

\* mesh_thinking from the end of one execution to the next await or to its
\* return. A put on a full queue would wait for a get, and nothing gets.
mesh_resume(i, o) ==
    /\ pattern = "mesh"
    /\ strat = "active"
    /\ i \in 1..N
    /\ st[i] = "running"
    /\ IF o = "completed" /\ \E a \in receivers(channels, subtasks[i].agent) : full(channels[a])
       THEN /\ st' = [st EXCEPT ![i] = "putting"]
            /\ UNCHANGED << channels, results, res, done_order, strat, phase, error >>
       ELSE IF o = "completed"
       THEN LET result == simulate_agent_execution(subtasks[i])
            IN  /\ channels' = broadcast(channels, subtasks[i].agent, result)
                /\ results' = Append(results, result)
                /\ res' = [res EXCEPT ![i] = result]
                /\ done_order' = Append(done_order, i)
                /\ IF i < N
                   THEN /\ st' = [st EXCEPT ![i] = "done", ![i + 1] = "running"]
                        /\ strat' = strat
                        /\ phase' = phase
                   ELSE /\ st' = [st EXCEPT ![i] = "done"]
                        /\ strat' = "returned"
                        /\ phase' = PhaseAfterReturn
                /\ error' = error
       ELSE /\ st' = [st EXCEPT ![i] = "raised"]
            /\ strat' = "raised"
            /\ error' = "ExecutionError"
            /\ phase' = PhaseAfterRaise
            /\ UNCHANGED << channels, results, res, done_order >>
    /\ UNCHANGED << agents_registry, entry, user_request, analysis, pattern, subtasks,
                    outcome, cancelled, analyses >>

\* sum(1 for r in results if r["status"] == "completed")
successful_agents_any_status(rs) == Len(rs)

RECURSIVE successful_agents(_)
successful_agents(rs) ==
    IF rs = <<>> THEN 0
    ELSE (IF rs[1].status = "completed" THEN 1 ELSE 0) + successful_agents(Tail(rs))

\* confidence_score > 0.8, on the fraction num / den: the float quotient of
\* two small integers is above the float 0.8 exactly when num / den > 4 / 5.
high_confidence_inclusive(score) == score.num * 5 >= score.den * 4

high_confidence(score) == score.num * 5 > score.den * 4

\* synthesize_results for a list that is not empty; the confidence score
\* successful / len is kept as the fraction num / den.
synthesize_results(rs) ==
    LET score == [num |-> successful_agents(rs), den |-> Len(rs)]
    IN  [ key_insights |-> [k \in 1..Len(rs) |->
                               [source |-> rs[k].agent, insight |-> rs[k].result]],
          confidence_score |-> score,
          recommendations |-> IF high_confidence(score)
                              THEN <<"Alta confiança">>
                              ELSE <<"Confiança moderada">> ]

\* Phase 4 and the return: synthesize_results divides by len(results).
synthesize ==
    /\ entry = "execute_ultrathink"
    /\ phase = "Synthesizing"
    /\ IF Len(results) = 0
       THEN /\ phase' = "Failed"
            /\ error' = "ZeroDivisionError"
            /\ outcome' = outcome
       ELSE /\ phase' = "Done"
            /\ error' = error
            /\ outcome' = << [ request |-> user_request,
                               analysis |-> analysis[1],
                               subtasks |-> subtasks,
                               results |-> results,
                               synthesis |-> synthesize_results(results) ] >>
    /\ UNCHANGED << agents_registry, entry, user_request, analysis, pattern, subtasks,
                    st, res, done_order, results, strat, channels, cancelled, analyses >>

\* Cancelling a coroutine cancels what it awaits: the sleep of the one
\* execution it waits for, or the gather, which cancels every awaitable
\* that has not returned.
cancel_none(s) == s

cancel_children(s) == [i \in DOMAIN s |-> IF s[i] = "running" THEN "cancelled" ELSE s[i]]

\* The called coroutine can be cancelled where it is suspended: before its
\* first step, and at the await of an execution or of the gather.
Suspended ==
    \/ entry = "execute_ultrathink" /\ phase = "Analyzing"
    \/ entry = "thinking_pattern" /\ strat = "idle"
    \/ strat = "active" /\ \E i \in 1..N : st[i] = "running"

\* The task of the called coroutine is cancelled; CancelledError is raised
\* at the await and nothing catches it.
cancel ==
    /\ Suspended
    /\ st' = cancel_children(st)
    /\ strat' = IF strat = "active" THEN "raised" ELSE "cancelled"
    /\ error' = "CancelledError"
    /\ phase' = PhaseAfterRaise
    /\ cancelled' = TRUE
    /\ UNCHANGED << agents_registry, entry, user_request, analysis, pattern, subtasks,
                    res, done_order, results, channels, outcome, analyses >>

\* synthesize_results is called directly with a result list.
call_synthesize(rs) ==
    /\ entry = "none"
    /\ entry' = "synthesize_results"
    /\ results' = rs
    /\ UNCHANGED << agents_registry, user_request, phase, analysis, pattern, subtasks,
                    st, res, done_order, strat, channels, error, outcome, cancelled,
                    analyses >>

\* The direct call runs to its end: it contains no await that suspends.
synthesize_direct ==
    /\ entry = "synthesize_results"
    /\ outcome = <<>>
    /\ error = "None"
    /\ IF Len(results) = 0
       THEN /\ error' = "ZeroDivisionError"
            /\ outcome' = outcome
       ELSE /\ error' = error
            /\ outcome' = << synthesize_results(results) >>
    /\ UNCHANGED << agents_registry, entry, user_request, phase, analysis, pattern,
                    subtasks, st, res, done_order, results, strat, channels, cancelled,
                    analyses >>

analyze_request_shared(request) ==
    /\ Len(analyses) < MaxAnalyses
    /\ analyses' = Append(analyses,
                          [ request |-> request,
                            record |-> analyze_request(request),
                            subtasks |-> IF IsTrendAnalysis(request) /\ N = 3
                                         THEN subtasks
                                         ELSE AnalysisSubtasks(request) ])
    /\ UNCHANGED << agents_registry, entry, user_request, phase, analysis, pattern,
                    subtasks, st, res, done_order, results, strat, channels, error,
                    outcome, cancelled >>

\* analyze_request is called directly; it has no await that suspends, so it
\* runs to its end wherever the other calls stand. The dict it returns and
\* the list under "subtasks" are built anew by each call.
analyze_request_call(request) ==
    /\ Len(analyses) < MaxAnalyses
    /\ analyses' = Append(analyses,
                          [ request |-> request,
                            record |-> analyze_request(request),
                            subtasks |-> AnalysisSubtasks(request) ])
    /\ UNCHANGED << agents_registry, entry, user_request, phase, analysis, pattern,
                    subtasks, st, res, done_order, results, strat, channels, error,
                    outcome, cancelled >>

\* The steps of a call that has been made.
Steps ==
    \/ select_pattern
    \/ sequential_thinking
    \/ \E i \in 1..N, o \in ExecOutcomes : sequential_resume(i, o)
    \/ parallel_thinking
    \/ \E i \in 1..N, o \in ExecOutcomes : gathered_resume(i, o)
    \/ hierarchical_thinking
    \/ \E o \in ExecOutcomes : hierarchical_resume(o)
    \/ mesh_thinking
    \/ \E i \in 1..N, o \in ExecOutcomes : mesh_resume(i, o)
    \/ synthesize

Next ==
    \/ \E a \in Agents : register_agent(a)
    \/ \E request \in Requests : execute_ultrathink(request)
    \/ \E p \in Patterns, subs \in SubtaskLists : call_pattern(p, subs)
    \/ Steps
    \/ cancel

Spec == Init /\ [][Next]_vars

\* synthesize_results alone, over result lists of both statuses.
NextSynthesize ==
    \/ \E rs \in ResultLists : call_synthesize(rs)
    \/ synthesize_direct

SpecSynthesize == Init /\ [][NextSynthesize]_vars

\* execute_ultrathink over analyses of every thinking_pattern value and
\* every subtask list.
NextAnyAnalysis ==
    \/ \E request \in SeqsUpTo(Words, 1) : execute_ultrathink(request)
    \/ \E key \in PatternKeys, subs \in SubtaskLists : select_pattern_given(key, subs)
    \/ Steps
    \/ cancel

SpecAnyAnalysis == Init /\ [][NextAnyAnalysis]_vars

\* Every execution returns or raises, and every coroutine that can run is run.
FairSpecAnyAnalysis == SpecAnyAnalysis /\ WF_vars(Steps)

\* analyze_request called repeatedly with one request, with registrations,
\* runs of execute_ultrathink and thinking patterns run on the subtasks of an
\* analysis in between.
NextAnalyze ==
    \/ \E request \in Requests :
          /\ analyses # <<>> => request = analyses[1].request
          /\ analyze_request_call(request)
    \/ \E a \in Agents : register_agent(a)
    \/ \E k \in 1..Len(analyses) : execute_ultrathink(analyses[k].request)
    \/ \E p \in Patterns, k \in 1..Len(analyses) : call_pattern(p, analyses[k].subtasks)
    \/ Steps

SpecAnalyze == Init /\ [][NextAnalyze]_vars

\* analyze_request over requests of every word count up to MaxLong.
NextComplexity ==
    \E request \in LongRequests :
        /\ analyses # <<>> => request = analyses[1].request
        /\ analyze_request_call(request)

SpecComplexity == Init /\ [][NextComplexity]_vars

----------------------------------------------------------------------------
\* Properties.

ByUltraThink == entry = "execute_ultrathink"
Analysed == analysis # <<>>
Finished == phase \in {"Done", "Failed"}
InFlight == {i \in 1..N : st[i] = "running"}
Raised == {i \in 1..N : st[i] = "raised"}

\* results[i] is the result of subtasks[i]
Corresponds(r, subtask) == r.agent = subtask.agent /\ r.task = subtask.task
InInputOrder(rs) == Len(rs) = N /\ \A i \in 1..N : Corresponds(rs[i], subtasks[i])

\* C1: a run whose analysis yields no subtask ends Failed with
\* EmptySubtaskListError, having entered no thinking pattern; it never ends
\* in a division by zero and returns no outcome.
C1_EmptySubtaskListFailsTyped ==
    (ByUltraThink /\ Analysed /\ N = 0) =>
        /\ error # "ZeroDivisionError"
        /\ outcome = <<>>
        /\ Finished => (phase = "Failed" /\ error = "EmptySubtaskListError" /\ strat = "idle")

\* C2: when an execution fails, the run is not aborted: no exception of an
\* execution leaves execute_ultrathink, and the outcome of the finished run
\* has one result per subtask, status failed for the failed ones, and the
\* fraction of completed results as confidence score.
C2_FailureRecordedRunCompletes ==
    (ByUltraThink /\ ~cancelled /\ Raised # {}) =>
        /\ phase # "Failed"
        /\ error # "ExecutionError"
        /\ phase = "Done" =>
              LET o == outcome[1]
              IN  /\ Len(o.results) = N
                  /\ \A i \in Raised : o.results[i].status = "failed"
                  /\ o.synthesis.confidence_score =
                         [num |-> N - Cardinality(Raised), den |-> N]

\* C3: in the parallel pattern an execution that fails leaves the others
\* awaited: the pattern does not end while one of them runs, and it returns
\* a list with every subtask's outcome.
C3_ParallelFailureIsolated ==
    (pattern = "parallel" /\ ~cancelled /\ Raised # {}) =>
        /\ strat # "raised"
        /\ strat = "returned" => (InFlight = {} /\ Len(results) = N)

\* C4: the list the parallel pattern returns has the length of its input
\* and its i-th result is the result of the i-th subtask, whatever the order
\* in which the executions returned.
C4_ParallelOrderPreserved ==
    (pattern = "parallel" /\ strat = "returned") => InInputOrder(results)

C4_Witness ==
    /\ pattern = "parallel"
    /\ strat = "returned"
    /\ N = 3
    /\ done_order = <<3, 2, 1>>
    /\ \A i, j \in 1..N : i # j => subtasks[i] # subtasks[j]

\* C5: in the sequential pattern a subtask whose execution has started
\* carries the result of the subtask before it as previous_result, and the
\* first one carries none.
C5_PreviousResultThreaded ==
    pattern = "sequential" =>
        \A i \in InFlight :
            subtasks[i].previous_result = IF i = 1 THEN None ELSE res[i - 1]

\* C6: execute_ultrathink moves Idle, Analyzing, Executing, Synthesizing,
\* Done in that order, and enters Failed from Analyzing or Executing only.
PhaseSteps ==
    { <<"Idle", "Analyzing">>, <<"Analyzing", "Executing">>,
      <<"Executing", "Synthesizing">>, <<"Synthesizing", "Done">>,
      <<"Analyzing", "Failed">>, <<"Executing", "Failed">> }

C6_PhaseOrder == [][phase' # phase => <<phase, phase'>> \in PhaseSteps]_vars

\* C7: a cancelled run ends Failed with CancelledError, no execution it
\* launched is left running, and no outcome is returned.
C7_CancelledRunExposesNothing ==
    cancelled =>
        /\ strat \in {"raised", "cancelled"}
        /\ error = "CancelledError"
        /\ ByUltraThink => phase = "Failed"
        /\ outcome = <<>>
        /\ InFlight = {}

C7_Witness ==
    /\ cancelled
    /\ ByUltraThink
    /\ pattern = "parallel"
    /\ \E i, j \in 1..N : st[i] = "cancelled" /\ st[j] = "done"

\* C8: with the parallel pattern the synthesis does not start, and the
\* pattern does not return, while a launched execution is in flight.
C8_JoinWaitsForAll ==
    (pattern = "parallel" /\ (strat = "returned" \/ phase \in {"Synthesizing", "Done"})) =>
        \A i \in 1..N : st[i] = "done"

C8_Witness ==
    /\ ByUltraThink
    /\ pattern = "parallel"
    /\ phase = "Synthesizing"
    /\ N = 3
    /\ done_order = <<2, 3, 1>>

\* C9: in the hierarchical pattern over a list that is not empty no
\* sub-agent's execution starts before the main agent's has returned, and
\* the list returned is the main result followed by the sub-agents' results
\* in input order, as long as the input.
C9_HierarchicalMainFirst ==
    (pattern = "hierarchical" /\ N >= 1) =>
        /\ \A i \in 2..N : st[i] # "pending" => st[1] = "done"
        /\ done_order # <<>> => done_order[1] = 1
        /\ strat = "returned" =>
              /\ InInputOrder(results)
              /\ results[1] = res[1]
              /\ SubSeq(results, 2, N) = [k \in 1..(N - 1) |-> res[k + 1]]

C9_Witness ==
    /\ pattern = "hierarchical"
    /\ strat = "returned"
    /\ N = 3
    /\ done_order = <<1, 3, 2>>
    /\ \A i, j \in 1..N : i # j => subtasks[i] # subtasks[j]

\* C10: in the mesh pattern every agent's channel holds the results
\* produced so far by the other agents, in execution order, and none of its
\* own; the list returned has every subtask's result in input order.
ProducedByOthers(rs, agent) ==
    LET Other(r) == r.agent # agent
    IN  SelectSeq(rs, Other)

C10_MeshBroadcast ==
    (pattern = "mesh" /\ strat \in {"active", "returned", "raised"}) =>
        /\ DOMAIN channels = {subtasks[i].agent : i \in 1..N}
        /\ \A a \in DOMAIN channels : channels[a] = ProducedByOthers(results, a)
        /\ strat = "returned" =>
              /\ InInputOrder(results)
              /\ \A i \in 1..N : st[i] = "done"
              /\ done_order = [i \in 1..N |-> i]

C10_Witness ==
    /\ pattern = "mesh"
    /\ strat = "returned"
    /\ N = 3
    /\ subtasks[1].agent = subtasks[3].agent
    /\ subtasks[1].agent # subtasks[2].agent

\* C11: for a result list that is not empty the confidence score is the
\* number of results with status completed over the length of the list,
\* a fraction between 0 and 1.
Completed(rs) == {k \in 1..Len(rs) : rs[k].status = "completed"}
Synthesized == entry = "synthesize_results" /\ outcome # <<>>

C11_ConfidenceIsCompletedFraction ==
    Synthesized =>
        LET score == outcome[1].confidence_score
        IN  /\ Len(results) > 0
            /\ score.num = Cardinality(Completed(results))
            /\ score.den = Len(results)
            /\ 0 <= score.num /\ score.num <= score.den

C11_Witness ==
    /\ Synthesized
    /\ Len(results) = 3
    /\ Cardinality(Completed(results)) = 2
    /\ results[2].status = "failed"

\* C12: the synthesis of a list that is not empty holds one recommendation:
\* the high-confidence one when completed * 5 > total * 4, the moderate one
\* otherwise, also at 4 of 5 and at 2 of 3.
C12_OneRecommendation ==
    Synthesized =>
        LET completed == Cardinality(Completed(results))
            total == Len(results)
        IN  outcome[1].recommendations =
                IF completed * 5 > total * 4
                THEN <<"Alta confiança">> ELSE <<"Confiança moderada">>

C12_Witness ==
    /\ Synthesized
    /\ Len(results) = 5
    /\ Cardinality(Completed(results)) = 4
    /\ outcome[1].recommendations = <<"Confiança moderada">>

\* C13: with a thinking_pattern that is no key of thinking_patterns the
\* run uses the sequential pattern, and no KeyError ends it.
UnknownPattern == Analysed /\ analysis[1].thinking_pattern \notin DOMAIN thinking_patterns

C13_UnknownPatternIsSequential ==
    (ByUltraThink /\ UnknownPattern) =>
        /\ pattern = "sequential"
        /\ error \in {"None", "ExecutionError", "CancelledError", "ZeroDivisionError"}
        /\ Cardinality(InFlight) <= 1
        /\ phase = "Done" => InInputOrder(outcome[1].results)

C13_Witness ==
    /\ ByUltraThink
    /\ UnknownPattern
    /\ phase = "Done"
    /\ N = 2
    /\ done_order = <<1, 2>>

\* C14: a list of one subtask behaves the same under the four patterns:
\* one execution, nothing put on a channel, the one result returned, and
\* the subtask left as it was.
C14_SingleSubtaskSameUnderAllPatterns ==
    (entry = "thinking_pattern" /\ N = 1 /\ strat = "returned") =>
        /\ done_order = <<1>>
        /\ results = <<simulate_agent_execution(Subtask(subtasks[1].agent, subtasks[1].task))>>
        /\ \A a \in DOMAIN channels : channels[a] = <<>>
        /\ subtasks[1].previous_result = None

\* C15: in the sequential pattern and in the main agent's step of the
\* hierarchical one at most one execution is in flight, and an execution
\* has started only if every execution before it in the list has returned.
C15_StrictlyOrdered ==
    /\ pattern = "sequential" =>
          /\ Cardinality(InFlight) <= 1
          /\ \A i \in 1..N : st[i] # "pending" => \A j \in 1..(i - 1) : st[j] = "done"
          /\ done_order = [k \in 1..Len(done_order) |-> k]
    /\ (pattern = "hierarchical" /\ N >= 1 /\ st[1] \in {"pending", "running"}) =>
          /\ InFlight \subseteq {1}
          /\ \A i \in 2..N : st[i] = "pending"

C15_Witness ==
    /\ pattern = "sequential"
    /\ N = 3
    /\ st = <<"done", "running", "pending">>

\* C16: a request that holds both keywords, in any case, is analysed as
\* parallel with the three subtasks of TrendingAgent, AnalyzerAgent,
\* SynthesisAgent in that order; the finished run has their three results
\* in that order and a confidence score of 1.
BothKeywords(request) ==
    /\ \E i \in 1..Len(request) : request[i] \in {"Análise", "análise"}
    /\ \E i \in 1..Len(request) : request[i] = "tendências"

TrendAgents == <<"TrendingAgent", "AnalyzerAgent", "SynthesisAgent">>

C16_TrendAnalysisScenario ==
    (ByUltraThink /\ Analysed /\ BothKeywords(user_request)) =>
        /\ analysis[1].thinking_pattern = "parallel"
        /\ pattern = "parallel"
        /\ analysis[1].required_agents = TrendAgents
        /\ [i \in 1..N |-> subtasks[i].agent] = TrendAgents
        /\ phase = "Done" =>
              /\ [i \in 1..Len(outcome[1].results) |-> outcome[1].results[i].agent] = TrendAgents
              /\ \A i \in 1..3 : outcome[1].results[i].status = "completed"
              /\ outcome[1].synthesis.confidence_score = [num |-> 3, den |-> 3]

C16_Witness ==
    /\ ByUltraThink
    /\ user_request = <<"tendências", "Análise">>
    /\ phase = "Done"
    /\ done_order = <<3, 1, 2>>

\* C19: the analysis pairs parallel with three subtasks or sequential with
\* none, so execute_ultrathink runs the sequential or the parallel pattern
\* and never the hierarchical or the mesh one.
C19_OnlySequentialOrParallel ==
    (ByUltraThink /\ Analysed) =>
        /\ \/ analysis[1].thinking_pattern = "parallel" /\ N = 3
           \/ analysis[1].thinking_pattern = "sequential" /\ N = 0
        /\ pattern = analysis[1].thinking_pattern
        /\ channels = <<>>

C19_Witness ==
    /\ ByUltraThink
    /\ ~BothKeywords(user_request)
    /\ Len(user_request) = 2
    /\ pattern = "sequential"
    /\ strat = "returned"

\* C17: a call of analyze_request changes nothing of the orchestrator, and
\* returns what every earlier call with the same request returned, whatever
\* registrations, runs and thinking patterns came in between.
OrchestratorState ==
    << agents_registry, entry, user_request, phase, analysis, pattern, subtasks, st,
       res, done_order, results, strat, channels, error, outcome, cancelled >>

C18_ComplexityByWordCount ==
    \A k \in 1..Len(analyses) :
        LET n == Len(analyses[k].request)
            c == analyses[k].record.complexity
        IN  /\ n < 10 => c = 3
            /\ (10 <= n /\ n < 30) => c = 5
            /\ (30 <= n /\ n < 50) => c = 7
            /\ n >= 50 => c = 9

C18_Witness ==
    /\ analyses # <<>>
    /\ Len(analyses[1].request) = 50
    /\ analyses[1].record.complexity = 9

\* C20: every run of execute_ultrathink ends Done or Failed, under each
\* thinking pattern, when every execution returns or raises; no put on a
\* mesh channel holds the run.
C20_RunTerminates == ByUltraThink ~> Finished

C20_Witness ==
    /\ ByUltraThink
    /\ pattern = "mesh"
    /\ phase = "Done"
    /\ N = 3
    /\ \E a \in DOMAIN channels : Len(channels[a]) = 2
====
